---- MODULE Spec2Model ----
(***************************************************************************)
(* State-machine model of examples/model_compression/PP-MiniLM/pruning/    *)
(* prune.py: the joint multi-width distillation loop of do_train, the      *)
(* evaluate function and reorder_neuron_head.                              *)
(*                                                                         *)
(* Width ratios and evaluation results are held in hundredths (0.5 is 50,  *)
(* 0.82 is 82), importance scores in tenths (0.9 is 9).                    *)
(***************************************************************************)
EXTENDS Integers, Sequences, FiniteSets, TLC

(* ------------------------------ bounds --------------------------------- *)
\* longest --width_mult_list
MaxWidths == 2
\* largest --max_steps
MaxSteps == 2
\* largest --num_train_epochs (the smallest taken is -1)
MaxEpochs == 1
\* largest len(train_data_loader)
MaxBatches == 2
\* largest --save_steps (the smallest taken is 0)
MaxSaveSteps == 2
\* largest len(dev_data_loader)
MaxDevBatches == 1
\* encoder layers, attention heads a layer, feed-forward neurons a layer
NumLayers == 2
NumHeads == 4
NumNeurons == 2

\* width ratios a command line can give; 0.0 lies outside (0, 1]
WidthValues == {0, 50, 100}
\* values metric.accumulate() can return: a coarse range, and the range
\* of the spec's monotone-checkpointing scenario
Results == {-50, 0, 50, 100}
ScenarioResults == {0, 75, 77, 78, 80, 82}
\* importance scores of heads and of neurons, in tenths
Scores == {1, 3, 7, 9}
NeuronScores == {1, 3}
\* gradient contributions one backward pass can add to a parameter
Grads == {1, 2}
\* what the importance pass of line 331 can leave in a parameter's gradient
ImportanceGrads == {0} \cup Grads

\* values of --logging_steps: what is logged changes no state, so one value
\* that raises at line 400 and one that does not
LoggingSteps == {0, 1}

ValidWidth(w) == w > 0 /\ w <= 100

WidthLists == UNION {[1..n -> WidthValues] : n \in 1..MaxWidths}

\* parse_args: the options do_train reads in its loop.  The integer options
\* are type=int with no range check, so zero and negative values come
\* through.
ArgSpace ==
    [width_mult_list : WidthLists,
     max_steps : {-1} \cup (1..MaxSteps),
     num_train_epochs : (-1)..MaxEpochs,
     logging_steps : LoggingSteps,
     save_steps : 0..MaxSaveSteps]

\* one pass over dev_data_loader: what each batch does, and what
\* metric.accumulate() returns after the last one
DevRuns(range) ==
    [batches : UNION {[1..n -> {"ok", "raise"}] : n \in 0..MaxDevBatches},
     acc : range]

\* the passes over do_train's dev_data_loader, whose length does not change
\* during a run
DevPasses(range) ==
    {d \in DevRuns(range) : Len(d.batches) = MaxDevBatches}

\* what the library may do with a width ratio nothing has checked: go
\* through, raise in dynabert_config (line 388, before set_net_config), or
\* raise in the forward pass (line 390, after set_net_config)
WidthOutcomes(w) ==
    IF ValidWidth(w) THEN {"ok"} ELSE {"ok", "raise_config", "raise_forward"}

HasBadWidth(ws) == \E i \in 1..Len(ws) : ~ValidWidth(ws[i])

(* ------------------------------ state ---------------------------------- *)
VARIABLES
    args,               \* parsed command line
    train_len,          \* len(train_data_loader)
    metric_range,       \* values metric.accumulate() can return on the dev set
    pc,                 \* position of do_train
    reordered,          \* reorder_neuron_head has been applied to the model
    num_training_steps,
    num_train_epochs,
    epoch,
    step,               \* batches of the current epoch already taken
    global_step,
    widx,               \* cursor of the running width loop (1-based)
    net_config,         \* width last given to ofa_model.set_net_config
    grad,               \* gradient accumulated in the parameters
    acc_grads,          \* per-width gradients added since the last clear_grad
    stepped,            \* gradient the last optimizer.step() consumed
    opt_steps,          \* optimizer.step() calls
    lr_steps,           \* lr_scheduler.step() calls
    best_res,
    res,
    ckpts,              \* results after which save_pretrained wrote the model
    tok_saves,          \* tokenizer.save_pretrained calls
    printed,            \* line 431 was executed
    student_training,   \* ofa_model.training
    teacher_training,   \* teacher_model.training
    batch_log,          \* operations of the current batch, in order
    last_eval_step,     \* global_step of the last evaluation round
    seen_max,           \* largest student result compared so far (0 before)
    n_compared,         \* student results compared against best_res so far
    scenario_pos        \* evaluate calls matched against Scenario, -1 once off it

trainVars ==
    <<args, train_len, metric_range, pc, reordered, num_training_steps, num_train_epochs,
      epoch, step, global_step, widx, net_config, grad, acc_grads, stepped,
      opt_steps, lr_steps, best_res, res, ckpts, tok_saves, printed,
      student_training, teacher_training, batch_log, last_eval_step,
      seen_max, n_compared, scenario_pos>>

VARIABLES
    ev_model,           \* evaluate: which model is passed, teacher or student
    ev_prior,           \* evaluate: model.training when the call is made
    ev_training,        \* evaluate: model.training now
    ev_dev,             \* evaluate: what the pass over data_loader does
    ev_pc,              \* evaluate: "call", "returned" or "raised"
    ev_ret              \* evaluate: the value returned

evalVars == <<ev_model, ev_prior, ev_training, ev_dev, ev_pc, ev_ret>>

VARIABLES
    head_importance,    \* reorder_neuron_head: scores, layer -> head -> score
    neuron_importance,  \* reorder_neuron_head: scores, layer -> neuron -> score
    layer,              \* reorder_neuron_head: the loop's layer
    ro_pc,              \* reorder_neuron_head: "heads", "neurons" or "done"
    idx                 \* reorder_neuron_head: the last argsort result

reorderVars == <<head_importance, neuron_importance, layer, ro_pc, idx>>

vars == <<trainVars, evalVars, reorderVars>>

(* ----------------------------- helpers --------------------------------- *)
\* math.ceil(a / b) for a >= 0, b > 0
CeilDiv(a, b) == IF a % b = 0 THEN a \div b ELSE (a \div b) + 1

RECURSIVE SumSeq(_)
SumSeq(s) == IF s = <<>> THEN 0 ELSE Head(s) + SumSeq(Tail(s))

\* lines 343-349
TotalSteps(a, n) ==
    IF a.max_steps > 0 THEN a.max_steps ELSE n * a.num_train_epochs

EpochCount(a, n) ==
    IF a.max_steps > 0 THEN CeilDiv(a.max_steps, n) ELSE a.num_train_epochs

\* line 375
InitialBest == 0

\* line 395: loss.backward() adds this width's gradient to what is there
Backward(g0, g) == g0 + g

\* line 407
ShouldEval(gs, save, total) == gs % save = 0 \/ gs = total

\* line 419
NewBestOrEqual(best, r) == best <= r
NewBest(best, r) == best < r

\* line 429
Finished(gs, total) == gs >= total

\* lines 178-193: evaluate(model, metric, data_loader, width_mult) on a
\* model whose training flag is `training`, over the dev pass `dev`.
\* model.eval() comes first; model.train() is reached only when no
\* batch raised.
evaluate(training, dev) ==
    LET raised == \E i \in 1..Len(dev.batches) : dev.batches[i] = "raise"
        in_eval == FALSE
    IN  [training |-> IF raised THEN in_eval ELSE TRUE,
         raised |-> raised,
         res |-> dev.acc]

\* the spec's monotone-checkpointing scenario, as evaluate calls in the
\* order do_train makes them with --width_mult_list 1.0 0.5 (the second
\* round's teacher result is left open)
Scenario ==
    << [who |-> "teacher", width |-> 100, res |-> 80, any |-> FALSE],
       [who |-> "student", width |-> 100, res |-> 75, any |-> FALSE],
       [who |-> "student", width |-> 50, res |-> 78, any |-> FALSE],
       [who |-> "teacher", width |-> 100, res |-> 0, any |-> TRUE],
       [who |-> "student", width |-> 100, res |-> 82, any |-> FALSE],
       [who |-> "student", width |-> 50, res |-> 77, any |-> FALSE] >>

Advance(pos, who, w, r) ==
    IF /\ pos >= 0
       /\ pos < Len(Scenario)
       /\ Scenario[pos + 1].who = who
       /\ Scenario[pos + 1].width = w
       /\ (Scenario[pos + 1].any \/ Scenario[pos + 1].res = r)
    THEN pos + 1
    ELSE -1

(* ------------------------------ do_train ------------------------------- *)
\* do_train as it is entered: nothing loaded, nothing counted
TrainStart(argspace, range) ==
    /\ args \in argspace
    /\ train_len \in 1..MaxBatches
    /\ metric_range = range
    /\ pc = "setup"
    /\ reordered = FALSE
    /\ num_training_steps = 0
    /\ num_train_epochs = 0
    /\ epoch = 0
    /\ step = 0
    /\ global_step = 0
    /\ widx = 1
    /\ net_config = 100
    /\ grad = 0
    /\ acc_grads = <<>>
    /\ stepped = 0
    /\ opt_steps = 0
    /\ lr_steps = 0
    /\ best_res = InitialBest
    /\ res = 0
    /\ ckpts = <<>>
    /\ tok_saves = 0
    /\ printed = FALSE
    /\ student_training = TRUE
    /\ teacher_training = TRUE
    /\ batch_log = <<>>
    /\ last_eval_step = 0
    /\ seen_max = 0
    /\ n_compared = 0
    /\ scenario_pos = 0

\* the variables of a function that is not under study, at rest
TrainIdle ==
    /\ TrainStart({[width_mult_list |-> <<100>>, max_steps |-> -1,
                     num_train_epochs |-> 0, logging_steps |-> 1,
                     save_steps |-> 1]},
                  Results)
    /\ train_len = 1

EvalIdle ==
    /\ ev_model = "student"
    /\ ev_prior = TRUE
    /\ ev_training = TRUE
    /\ ev_dev = [batches |-> <<>>, acc |-> 0]
    /\ ev_pc = "idle"
    /\ ev_ret = 0

ReorderIdle ==
    /\ head_importance = <<>>
    /\ neuron_importance = <<>>
    /\ layer = 0
    /\ ro_pc = "idle"
    /\ idx = <<>>

Init == TrainStart(ArgSpace, Results) /\ EvalIdle /\ ReorderIdle

\* lines 240-338: data, models, importance, reorder_neuron_head.  A lookup
\* or a load can raise (unknown task or model type, missing files), before
\* anything is reordered.  Line 331's importance pass back-propagates the
\* task loss through ofa_model.model for every dev batch, and nothing from
\* there to line 398 clears gradients: what the pass leaves in the
\* parameters is there when the first batch starts.  The constructors and
\* the pass decide the mode each model is in afterwards.
Setup ==
    /\ pc = "setup"
    /\ \E out \in {"ok", "raise"}, g0 \in ImportanceGrads,
          st \in BOOLEAN, tt \in BOOLEAN :
          IF out = "ok"
          THEN /\ reordered' = TRUE
               /\ grad' = g0
               /\ student_training' = st
               /\ teacher_training' = tt
               /\ pc' = "plan"
          ELSE /\ pc' = "aborted"
               /\ UNCHANGED <<reordered, grad, student_training,
                              teacher_training>>
    /\ UNCHANGED <<evalVars, reorderVars, args, train_len, metric_range, num_training_steps, num_train_epochs,
                   epoch, step, global_step, widx, net_config,
                   acc_grads, stepped, opt_steps, lr_steps, best_res, res,
                   ckpts, tok_saves, printed, batch_log, last_eval_step,
                   seen_max, n_compared, scenario_pos>>

\* lines 343-375
Plan ==
    /\ pc = "plan"
    /\ num_training_steps' = TotalSteps(args, train_len)
    /\ num_train_epochs' = EpochCount(args, train_len)
    /\ global_step' = 0
    /\ best_res' = InitialBest
    /\ epoch' = 0
    /\ pc' = "epoch"
    /\ UNCHANGED <<evalVars, reorderVars, args, train_len, metric_range, reordered, step, widx, net_config, grad,
                   acc_grads, stepped, opt_steps, lr_steps, res, ckpts,
                   tok_saves, printed, student_training, teacher_training,
                   batch_log, last_eval_step, seen_max, n_compared,
                   scenario_pos>>

\* lines 376-379: for epoch in range(num_train_epochs)
EpochLoop ==
    /\ pc = "epoch"
    /\ \/ /\ epoch < num_train_epochs
          /\ step' = 0
          /\ pc' = "batch"
       \/ /\ epoch >= num_train_epochs
          /\ step' = step
          /\ pc' = "print"
    /\ UNCHANGED <<evalVars, reorderVars, args, train_len, metric_range, reordered, num_training_steps,
                   num_train_epochs, epoch, global_step, widx, net_config,
                   grad, acc_grads, stepped, opt_steps, lr_steps, best_res,
                   res, ckpts, tok_saves, printed, student_training,
                   teacher_training, batch_log, last_eval_step, seen_max,
                   n_compared, scenario_pos>>

\* lines 381-383: for step, batch in enumerate(train_data_loader)
BatchLoop ==
    /\ pc = "batch"
    /\ \/ /\ step < train_len
          /\ global_step' = global_step + 1
          /\ widx' = 1
          /\ batch_log' = <<>>
          /\ pc' = "width"
          /\ epoch' = epoch
       \/ /\ step >= train_len
          /\ epoch' = epoch + 1
          /\ pc' = "epoch"
          /\ UNCHANGED <<global_step, widx, batch_log>>
    /\ UNCHANGED <<evalVars, reorderVars, args, train_len, metric_range, reordered, num_training_steps,
                   num_train_epochs, step, net_config, grad, acc_grads,
                   stepped, opt_steps, lr_steps, best_res, res, ckpts,
                   tok_saves, printed, student_training, teacher_training,
                   last_eval_step, seen_max, n_compared,
                   scenario_pos>>

\* lines 385-395: one width of the training width loop.  Nothing checks the
\* ratio: with one outside (0, 1] the library call may go through or raise.
TrainWidth ==
    /\ pc = "width"
    /\ LET w == args.width_mult_list[widx]
       IN  \E out \in WidthOutcomes(w), g \in Grads :
              CASE out = "ok" ->
                      /\ net_config' = w
                      /\ grad' = Backward(grad, g)
                      /\ acc_grads' = Append(acc_grads, g)
                      /\ batch_log' = batch_log \o
                             << <<"cfg", w>>, <<"fwd", w>>, <<"bwd", w>> >>
                      /\ widx' = widx + 1
                      /\ pc' = IF widx = Len(args.width_mult_list)
                               THEN "opt" ELSE "width"
                [] out = "raise_config" ->
                      /\ pc' = "aborted"
                      /\ UNCHANGED <<net_config, grad, acc_grads,
                                     batch_log, widx>>
                [] out = "raise_forward" ->
                      /\ net_config' = w
                      /\ batch_log' = Append(batch_log, <<"cfg", w>>)
                      /\ pc' = "aborted"
                      /\ UNCHANGED <<grad, acc_grads, widx>>
    /\ UNCHANGED <<evalVars, reorderVars, args, train_len, metric_range, reordered, num_training_steps,
                   num_train_epochs, epoch, step, global_step, stepped,
                   opt_steps, lr_steps, best_res, res, ckpts, tok_saves,
                   printed, student_training, teacher_training,
                   last_eval_step, seen_max, n_compared,
                   scenario_pos>>

\* line 396
OptimizerStep ==
    /\ pc = "opt"
    /\ stepped' = grad
    /\ opt_steps' = opt_steps + 1
    /\ batch_log' = Append(batch_log, <<"opt", 0>>)
    /\ pc' = "lr"
    /\ UNCHANGED <<evalVars, reorderVars, args, train_len, metric_range, reordered, num_training_steps,
                   num_train_epochs, epoch, step, global_step, widx,
                   net_config, grad, acc_grads, lr_steps, best_res, res,
                   ckpts, tok_saves, printed, student_training,
                   teacher_training, last_eval_step, seen_max, n_compared,
                   scenario_pos>>

\* line 397
LrStep ==
    /\ pc = "lr"
    /\ lr_steps' = lr_steps + 1
    /\ batch_log' = Append(batch_log, <<"lr", 0>>)
    /\ pc' = "clear"
    /\ UNCHANGED <<evalVars, reorderVars, args, train_len, metric_range, reordered, num_training_steps,
                   num_train_epochs, epoch, step, global_step, widx,
                   net_config, grad, acc_grads, stepped, opt_steps, best_res,
                   res, ckpts, tok_saves, printed, student_training,
                   teacher_training, last_eval_step, seen_max, n_compared,
                   scenario_pos>>

\* line 398
ClearGrad ==
    /\ pc = "clear"
    /\ grad' = 0
    /\ acc_grads' = <<>>
    /\ stepped' = 0
    /\ batch_log' = Append(batch_log, <<"clear", 0>>)
    /\ pc' = "gate"
    /\ UNCHANGED <<evalVars, reorderVars, args, train_len, metric_range, reordered, num_training_steps,
                   num_train_epochs, epoch, step, global_step, widx,
                   net_config, opt_steps, lr_steps, best_res, res, ckpts,
                   tok_saves, printed, student_training, teacher_training,
                   last_eval_step, seen_max, n_compared,
                   scenario_pos>>

\* lines 400-407: the logging test takes global_step modulo logging_steps
\* and the evaluation test takes it modulo save_steps before anything else;
\* modulo zero raises ZeroDivisionError.  What is logged changes no state.
EvalGate ==
    /\ pc = "gate"
    /\ pc' = IF args.logging_steps = 0 \/ args.save_steps = 0
             THEN "aborted"
             ELSE IF ShouldEval(global_step, args.save_steps,
                                num_training_steps)
                  THEN "eval_teacher" ELSE "ret_check"
    /\ UNCHANGED <<evalVars, reorderVars, args, train_len, metric_range, reordered, num_training_steps,
                   num_train_epochs, epoch, step, global_step, widx,
                   net_config, grad, acc_grads, stepped, opt_steps, lr_steps,
                   best_res, res, ckpts, tok_saves, printed,
                   student_training, teacher_training, batch_log,
                   last_eval_step, seen_max, n_compared,
                   scenario_pos>>

\* EvalTeacher with the teacher's result compared against best_res and
\* saved like a student's
EvalTeacherCompared ==
    /\ pc = "eval_teacher"
    /\ \E dev \in DevPasses(metric_range) :
          LET e == evaluate(teacher_training, dev)
          IN  /\ teacher_training' = e.training
              /\ IF e.raised
                 THEN /\ pc' = "aborted"
                      /\ UNCHANGED <<batch_log, widx, last_eval_step,
                                     scenario_pos, best_res, ckpts,
                                     tok_saves>>
                 ELSE /\ batch_log' = Append(batch_log, <<"eval_teacher", 100>>)
                      /\ widx' = 1
                      /\ last_eval_step' = global_step
                      /\ scenario_pos' =
                             Advance(scenario_pos, "teacher", 100, e.res)
                      /\ IF best_res < e.res
                         THEN /\ ckpts' = Append(ckpts, e.res)
                              /\ tok_saves' = tok_saves + 1
                              /\ best_res' = e.res
                         ELSE UNCHANGED <<ckpts, tok_saves, best_res>>
                      /\ pc' = "eval_student"
    /\ UNCHANGED <<evalVars, reorderVars, args, train_len, metric_range, reordered,
                   num_training_steps, num_train_epochs, epoch, step,
                   global_step, net_config, grad, acc_grads, stepped,
                   opt_steps, lr_steps, res, printed, student_training,
                   seen_max, n_compared>>

\* lines 408-410: the teacher's result is printed by evaluate and dropped
EvalTeacher ==
    /\ pc = "eval_teacher"
    /\ \E dev \in DevPasses(metric_range) :
          LET e == evaluate(teacher_training, dev)
          IN  /\ teacher_training' = e.training
              /\ IF e.raised
                 THEN /\ pc' = "aborted"
                      /\ UNCHANGED <<batch_log, widx, last_eval_step,
                                     scenario_pos>>
                 ELSE /\ batch_log' = Append(batch_log, <<"eval_teacher", 100>>)
                      /\ widx' = 1
                      /\ last_eval_step' = global_step
                      /\ scenario_pos' =
                             Advance(scenario_pos, "teacher", 100, e.res)
                      /\ pc' = "eval_student"
    /\ UNCHANGED <<evalVars, reorderVars, args, train_len, metric_range, reordered, num_training_steps,
                   num_train_epochs, epoch, step, global_step, net_config,
                   grad, acc_grads, stepped, opt_steps, lr_steps, best_res,
                   res, ckpts, tok_saves, printed, student_training,
                   seen_max, n_compared>>

\* lines 411-428: one width of the evaluation width loop
EvalStudent ==
    /\ pc = "eval_student"
    /\ LET w == args.width_mult_list[widx]
       IN  /\ net_config' = w
           /\ \E dev \in DevPasses(metric_range) :
                 LET e == evaluate(student_training, dev)
                 IN  /\ student_training' = e.training
                     /\ IF e.raised
                        THEN /\ pc' = "aborted"
                             /\ batch_log' = Append(batch_log, <<"cfg", w>>)
                             /\ UNCHANGED <<widx, res, best_res,
                                            ckpts, tok_saves, seen_max,
                                            n_compared, scenario_pos>>
                        ELSE /\ res' = e.res
                             /\ batch_log' = batch_log \o
                                    << <<"cfg", w>>, <<"eval", w>> >>
                             /\ IF NewBest(best_res, e.res)
                                THEN /\ ckpts' = Append(ckpts, e.res)
                                     /\ tok_saves' = tok_saves + 1
                                     /\ best_res' = e.res
                                ELSE UNCHANGED <<ckpts, tok_saves, best_res>>
                             /\ seen_max' = IF e.res > seen_max
                                            THEN e.res ELSE seen_max
                             /\ n_compared' = n_compared + 1
                             /\ scenario_pos' =
                                    Advance(scenario_pos, "student", w, e.res)
                             /\ widx' = widx + 1
                             /\ pc' = IF widx = Len(args.width_mult_list)
                                      THEN "ret_check" ELSE "eval_student"
    /\ UNCHANGED <<evalVars, reorderVars, args, train_len, metric_range, reordered, num_training_steps,
                   num_train_epochs, epoch, step, global_step, grad,
                   acc_grads, stepped, opt_steps, lr_steps, printed,
                   teacher_training, last_eval_step>>

\* lines 429-430
ReturnCheck ==
    /\ pc = "ret_check"
    /\ IF Finished(global_step, num_training_steps)
       THEN /\ pc' = "returned"
            /\ step' = step
       ELSE /\ pc' = "batch"
            /\ step' = step + 1
    /\ UNCHANGED <<evalVars, reorderVars, args, train_len, metric_range, reordered, num_training_steps,
                   num_train_epochs, epoch, global_step, widx, net_config,
                   grad, acc_grads, stepped, opt_steps, lr_steps, best_res,
                   res, ckpts, tok_saves, printed, student_training,
                   teacher_training, batch_log, last_eval_step, seen_max,
                   n_compared, scenario_pos>>

\* line 431
PrintBest ==
    /\ pc = "print"
    /\ printed' = TRUE
    /\ pc' = "done"
    /\ UNCHANGED <<evalVars, reorderVars, args, train_len, metric_range, reordered, num_training_steps,
                   num_train_epochs, epoch, step, global_step, widx,
                   net_config, grad, acc_grads, stepped, opt_steps, lr_steps,
                   best_res, res, ckpts, tok_saves, student_training,
                   teacher_training, batch_log, last_eval_step, seen_max,
                   n_compared, scenario_pos>>

Next ==
    \/ Setup
    \/ Plan
    \/ EpochLoop
    \/ BatchLoop
    \/ TrainWidth
    \/ OptimizerStep
    \/ LrStep
    \/ ClearGrad
    \/ EvalGate
    \/ EvalTeacher
    \/ EvalStudent
    \/ ReturnCheck
    \/ PrintBest

Spec == Init /\ [][Next]_vars

\* the interpreter runs do_train's single thread on until it returns or
\* raises.  No branch of the loops reads a result's value except line 419,
\* so here the metric takes two values, one for each side of it.
InitFair == TrainStart(ArgSpace, {0, 100}) /\ EvalIdle /\ ReorderIdle

FairSpec == InitFair /\ [][Next]_vars /\ WF_vars(Next)

\* do_train with --width_mult_list 1.0 0.5 (and, so that a rejected ratio
\* is seen too, 1.0 0.0) on a dev set whose results range over the
\* scenario's values
ScenarioArgs ==
    {a \in ArgSpace : a.width_mult_list \in {<<100, 50>>, <<100, 0>>}}

InitScenario ==
    TrainStart(ScenarioArgs, ScenarioResults) /\ EvalIdle /\ ReorderIdle

SpecScenario == InitScenario /\ [][Next]_vars

(* ------------------------------ evaluate ------------------------------ *)
InitEvaluate ==
    /\ ev_model \in {"teacher", "student"}
    /\ ev_prior \in BOOLEAN
    /\ ev_training = ev_prior
    /\ ev_dev \in DevRuns(Results \cup ScenarioResults)
    /\ ev_pc = "call"
    /\ ev_ret = 0
    /\ TrainIdle
    /\ ReorderIdle

\* lines 178-193, one call
EvaluateCall ==
    /\ ev_pc = "call"
    /\ LET e == evaluate(ev_training, ev_dev)
       IN  /\ ev_training' = e.training
           /\ ev_pc' = IF e.raised THEN "raised" ELSE "returned"
           /\ ev_ret' = IF e.raised THEN ev_ret ELSE e.res
    /\ UNCHANGED <<trainVars, reorderVars, ev_model, ev_prior, ev_dev>>

NextEvaluate == EvaluateCall

SpecEvaluate == InitEvaluate /\ [][NextEvaluate]_vars

(* ------------------------- reorder_neuron_head ------------------------- *)
Layers == 0..(NumLayers - 1)

Heads == 0..(NumHeads - 1)

Neurons == 0..(NumNeurons - 1)

\* the orders of a set of indices, as sequences
RECURSIVE Orders(_)
Orders(S) ==
    IF S = {}
    THEN {<<>>}
    ELSE UNION {{<<x>> \o p : p \in Orders(S \ {x})} : x \in S}

HeadOrders == Orders(Heads)

NeuronOrders == Orders(Neurons)

Descending(v, p) == \A i \in 1..(Len(p) - 1) : v[p[i]] >= v[p[i + 1]]

\* lines 222 and 225: paddle.argsort(v, descending=True).  The call names
\* the direction and nothing else: it neither asks for a stable sort nor
\* adds the index as a second key, so what the file fixes is that the result
\* lists the scores in descending order.  The order among equal scores is
\* the sort kernel's, which differs between devices and builds; every order
\* a descending sort can return is a possible result.
Argsort(v, orders) == {p \in orders : Descending(v, p)}

\* scores of layer l: those of layer 0 moved round by l places
Rotated(row, l, n) == [k \in 0..(n - 1) |-> row[(k + l) % n]]

InitReorder ==
    /\ head_importance \in
           {[l \in Layers |-> Rotated(row, l, NumHeads)] :
               row \in [Heads -> Scores]}
    /\ neuron_importance \in
           {[l \in Layers |-> Rotated(row, l, NumNeurons)] :
               row \in [Neurons -> NeuronScores]}
    /\ layer = 0
    /\ ro_pc = "heads"
    /\ idx = <<>>
    /\ TrainIdle
    /\ EvalIdle

\* lines 220-223: the heads of the loop's layer
ReorderHeads ==
    /\ ro_pc = "heads"
    /\ idx' \in Argsort(head_importance[layer], HeadOrders)
    /\ ro_pc' = "neurons"
    /\ UNCHANGED <<trainVars, evalVars, head_importance, neuron_importance,
                   layer>>

\* lines 225-230: its neurons, and on to the next layer
ReorderNeurons ==
    /\ ro_pc = "neurons"
    /\ idx' \in Argsort(neuron_importance[layer], NeuronOrders)
    /\ IF layer + 1 < NumLayers
       THEN layer' = layer + 1 /\ ro_pc' = "heads"
       ELSE layer' = layer /\ ro_pc' = "done"
    /\ UNCHANGED <<trainVars, evalVars, head_importance, neuron_importance>>

NextReorder == ReorderHeads \/ ReorderNeurons

SpecReorder == InitReorder /\ [][NextReorder]_vars

(* ------------------------- claims: do_train ---------------------------- *)
Last(s) == s[Len(s)]

IsPrefix(s, t) ==
    /\ Len(s) <= Len(t)
    /\ \A i \in 1..Len(s) : s[i] = t[i]

StrictlyIncreasing(s) == \A i \in 1..(Len(s) - 1) : s[i] < s[i + 1]

Widths == args.width_mult_list

\* a student evaluation returned and its result went through line 419
StudentCompared == pc = "eval_student" /\ pc' # "aborted"

\* a teacher evaluation returned
TeacherEvaluated == pc = "eval_teacher" /\ pc' # "aborted"

Wrote == ckpts' = Append(ckpts, res') /\ tok_saves' = tok_saves + 1

WroteNothing == ckpts' = ckpts /\ tok_saves' = tok_saves

\* C1 as stated: the teacher's result takes part in checkpoint selection,
\* so in the scenario checkpoints are written after 0.80 and 0.82 only and
\* best_res ends at 0.82.
C1_TeacherIncluded ==
    scenario_pos = Len(Scenario) => ckpts = <<80, 82>> /\ best_res = 82

\* C1 as amended: checkpoint selection considers the student evaluate calls
\* only.  A teacher evaluation writes nothing and leaves best_res alone; a
\* student evaluation writes exactly when its result strictly exceeds
\* best_res, which then takes that result.  In the scenario checkpoints are
\* written after 0.75, 0.78 and 0.82 (not after 0.80 or 0.77) and best_res
\* ends at 0.82.
C1_StudentOnly ==
    /\ [][/\ TeacherEvaluated => WroteNothing /\ best_res' = best_res
          /\ StudentCompared /\ res' > best_res
                 => Wrote /\ best_res' = res'
          /\ StudentCompared /\ ~(res' > best_res)
                 => WroteNothing /\ best_res' = best_res]_vars
    /\ [](scenario_pos = Len(Scenario)
            => ckpts = <<75, 78, 82>> /\ best_res = 82)

C1_Witness ==
    /\ scenario_pos = Len(Scenario)
    /\ Widths = <<100, 50>>
    /\ global_step = 2

\* C2: best_res is one value for all widths and rounds.  It never
\* decreases, it equals the maximum of its initial value and every student
\* result compared so far, and a student result writes the model and the
\* tokenizer exactly when it strictly exceeds it.
C2_GlobalBest ==
    /\ [](/\ best_res = seen_max
          /\ tok_saves = Len(ckpts)
          /\ StrictlyIncreasing(ckpts)
          /\ ckpts # <<>> => Last(ckpts) = best_res)
    /\ [][/\ best_res' >= best_res
          /\ StudentCompared => (Wrote <=> res' > best_res)
          /\ StudentCompared => (WroteNothing <=> res' <= best_res)
          /\ ~StudentCompared => WroteNothing /\ best_res' = best_res]_vars

\* a later width's result equals the best an earlier width set, and a third
\* result beats only its own width's earlier one: one checkpoint in all
C2_Witness ==
    /\ pc = "ret_check"
    /\ Len(Widths) = 2
    /\ n_compared = 4
    /\ ckpts = <<100>>
    /\ res = 50

\* one width's share of the training width loop, then the three calls that
\* end the batch's training part
ExpectedTrainLog(ws) ==
    [i \in 1..(3 * Len(ws)) |->
        << CASE (i - 1) % 3 = 0 -> "cfg"
             [] (i - 1) % 3 = 1 -> "fwd"
             [] OTHER -> "bwd",
           ws[((i - 1) \div 3) + 1] >>]
    \o << <<"opt", 0>>, <<"lr", 0>>, <<"clear", 0>> >>

ExpectedEvalLog(ws) ==
    << <<"eval_teacher", 100>> >>
    \o [i \in 1..(2 * Len(ws)) |->
           << IF i % 2 = 1 THEN "cfg" ELSE "eval", ws[(i + 1) \div 2] >>]

Prefix(s, n) == SubSeq(s, 1, IF n < Len(s) THEN n ELSE Len(s))

\* C3: in every batch the operations run in this order: forward and
\* backward once per width in list order with no clear between, then one
\* optimizer step, one scheduler step, one clear.  Gradients are zero when a
\* batch starts and the optimizer consumes the sum of the per-width
\* gradients.
C3_BatchOrder ==
    /\ IsPrefix(Prefix(batch_log, Len(ExpectedTrainLog(Widths))),
                ExpectedTrainLog(Widths))
    /\ pc \in {"gate", "eval_teacher", "eval_student", "ret_check", "returned"}
           => /\ Len(batch_log) >= Len(ExpectedTrainLog(Widths))
              /\ opt_steps = global_step
              /\ lr_steps = global_step
              /\ grad = 0
    /\ pc = "width" /\ widx = 1 => grad = 0
    /\ pc = "width" => grad = SumSeq(acc_grads) /\ Len(acc_grads) = widx - 1
    /\ pc = "opt" => grad = SumSeq(acc_grads) /\ Len(acc_grads) = Len(Widths)
    /\ pc \in {"lr", "clear"}
           => /\ stepped = SumSeq(acc_grads)
              /\ Len(acc_grads) = Len(Widths)
              /\ opt_steps = global_step

ZeroInterval == args.logging_steps = 0 \/ args.save_steps = 0

\* the run died of ZeroDivisionError at line 400 or 407
DiedAtGate ==
    /\ pc = "aborted"
    /\ ZeroInterval
    /\ batch_log # <<>>
    /\ Last(batch_log) = <<"clear", 0>>

Ended == pc \in {"returned", "done", "aborted"}

EndedNormally == pc \in {"returned", "done"}

\* a round's shape: after the batch's training part one teacher evaluation,
\* then for each width in list order set_net_config for it and one student
\* evaluation, exactly when global_step is a multiple of save_steps or
\* equals the total step count
RoundShape ==
    /\ pc = "ret_check"
           => batch_log =
                 ExpectedTrainLog(Widths)
                 \o (IF \/ global_step % args.save_steps = 0
                         \/ global_step = num_training_steps
                     THEN ExpectedEvalLog(Widths)
                     ELSE <<>>)
    /\ pc = "eval_student"
           => IsPrefix(batch_log,
                       ExpectedTrainLog(Widths) \o ExpectedEvalLog(Widths))
    /\ pc = "returned"
           => /\ last_eval_step = global_step
              /\ global_step = num_training_steps

\* C4: an evaluation round follows a batch's optimizer step
\* exactly when global_step is a multiple of save_steps or equals the total
\* step count; a round is one teacher evaluation, then for each width in
\* list order set_net_config for it and one student evaluation.  The final
\* training step is always evaluated before the run ends, unless a library
\* call raised.
C4_EvalRounds ==
    /\ RoundShape
    /\ (EndedNormally \/ DiedAtGate)
         /\ global_step > 0 /\ global_step = num_training_steps
           => last_eval_step = global_step

ExpectedSteps ==
    IF args.max_steps > 0
    THEN args.max_steps
    ELSE train_len * args.num_train_epochs

\* C5: the training loop terminates, global_step never exceeds
\* the total step count, and a run that ends other than by a library error
\* has taken exactly max_steps optimizer steps when max_steps > 0 and
\* train_len * num_train_epochs otherwise.
C5_ExactSteps ==
    /\ <>Ended
    /\ [](pc \notin {"setup", "plan"} => global_step <= num_training_steps)
    /\ [](EndedNormally \/ DiedAtGate
            => /\ opt_steps = ExpectedSteps
               /\ global_step = opt_steps)

\* C6: every run that completes normally has printed best_res (stated for
\* the runs whose width ratios all lie in (0, 1]).
C6_PrintsBest == EndedNormally /\ ~HasBadWidth(Widths) => printed

\* C8: best_res starts strictly below every result an evaluation
\* can return, so the first result compared always writes a checkpoint.
C8_FirstAlwaysWrites == n_compared >= 1 => ckpts # <<>>

\* C9: a width list with a ratio outside (0, 1] stops the run before the
\* model is reordered, before global_step leaves 0 and before any forward,
\* backward or optimizer step.
C9_BadWidthRejected ==
    HasBadWidth(Widths)
        => /\ ~reordered
           /\ global_step = 0
           /\ batch_log = <<>>
           /\ opt_steps = 0

(* ------------------------- claims: evaluate ---------------------------- *)
\* C7: whatever mode the model was in and however evaluate ends, by return
\* or by an error raised in the loop over the data, the model's mode after
\* the call is its mode before the call.
C7_ModeRestored == ev_pc \in {"returned", "raised"} => ev_training = ev_prior

(* -------------------- claims: reorder_neuron_head ---------------------- *)
\* the order that lists equal scores by ascending original index
StableOrder(v, orders) ==
    CHOOSE p \in orders :
        /\ Descending(v, p)
        /\ \A i \in 1..(Len(p) - 1) :
              v[p[i]] = v[p[i + 1]] => p[i] < p[i + 1]

\* idx holds the head order of the loop's layer
HeadsOrdered == ro_pc = "neurons"

\* idx holds the neuron order of layer l
NeuronsOrdered(l) ==
    \/ ro_pc = "heads" /\ layer = l + 1
    \/ ro_pc = "done" /\ layer = l

\* C10: each layer's head order and neuron order is a bijection
\* listing the indices by descending importance, equal scores in ascending
\* index order.
C10_StableOrder ==
    /\ HeadsOrdered => idx = StableOrder(head_importance[layer], HeadOrders)
    /\ \A l \in Layers :
          NeuronsOrdered(l)
              => idx = StableOrder(neuron_importance[l], NeuronOrders)

====
